---- MODULE Spec2Model ----
(***************************************************************************)
(* Model of the semantic-comparison kernel of                              *)
(* lesson-18-ai/AIApps/superjoe/src/dev/semantic_analyzer.py:              *)
(* compute_similarity, get_similarity_display, get_semantic_category,      *)
(* get_semantic_field and the Analyze handler of main.                     *)
(*                                                                         *)
(* Numbers.  Embeddings are 2-dimensional integer vectors whose norm is an *)
(* integer (0, 5 or 10), so that the cosine dot/(n1*n2) is an exact        *)
(* multiple of 1/100.  A score is kept in hundredths (60 is 0.60), or is   *)
(* NaN, the value numpy yields for 0/0.  Comparisons with NaN are false,   *)
(* as in IEEE 754.                                                         *)
(*                                                                         *)
(* Strings.  The non-English vocabulary terms are written in ASCII         *)
(* transliteration; a term is only ever used as a key of the embedding     *)
(* function and as a label.                                                *)
(***************************************************************************)
EXTENDS Integers, Sequences, FiniteSets, TLC

VARIABLES
    model,          \* the embedding function: model.encode, string -> vector
    context,        \* the module-level dict SEMANTIC_CONTEXT
    pc,             \* position: "ready" before a call and "returned" after it;
                    \* in main, "page" after a plain rerun and "analyzed"
                    \* after a run with the Analyze button pressed
    args,           \* the arguments of the call (a record named as in the source)
    ret,            \* what the call returned (a record), or NoValue
    similarities,   \* the local list get_semantic_field appends to
    ui,             \* what main wrote to the page: [shown, error, raised]
    ref             \* an earlier completed request and its result, or NoValue

vars == <<model, context, pc, args, ret, similarities, ui, ref>>

NoValue == [none |-> TRUE]

(***************************************************************************)
(* Bounds                                                                  *)
(***************************************************************************)
\* how many of VECS the embedding function may return
NumVecs == 4
\* how many terms of each vocabulary list are kept
VocabLen == 3
\* how many of LANGUAGES are offered
NumLangs == 2

(***************************************************************************)
(* Vectors and scores                                                      *)
(***************************************************************************)
\* Candidate embeddings, all of integer norm: one zero vector, the rest of
\* norm 5 or 10.
VECS ==
    << <<3, 4>>, <<5, 0>>, <<0, 0>>, <<-3, 4>>, <<6, 8>>, <<0, 5>>,
       <<-5, 0>>, <<4, 3>>, <<-4, -3>>, <<0, -10>>, <<8, -6>> >>

AllVec == {VECS[i] : i \in 1..Len(VECS)}

\* the float NaN (0/0); any value outside -100..100 would do
NaN == 999

IsNaN(x) == x = NaN

\* float comparison: false whenever an operand is NaN
Lt(a, b) == ~IsNaN(a) /\ ~IsNaN(b) /\ a < b

Gt(a, b) == Lt(b, a)

\* np.dot
dot(v1, v2) == v1[1] * v2[1] + v1[2] * v2[2]

\* np.linalg.norm, exact on vectors of integer norm
norm(v) == LET d == dot(v, v) IN CHOOSE n \in 0..10 : n * n = d

\* compute_similarity: dot / (norm1 * norm2), in hundredths; 0/0 is NaN
\* (numpy warns and returns nan, it does not raise)
compute_similarity(v1, v2) ==
    LET dot_product == dot(v1, v2)
        norm1 == norm(v1)
        norm2 == norm(v2)
    IN  IF norm1 * norm2 = 0
        THEN NaN
        ELSE (100 * dot_product) \div (norm1 * norm2)

\* int(x) on a float given in hundredths times ten: truncation toward zero
Trunc(num, den) == IF num >= 0 THEN num \div den ELSE -((-num) \div den)

\* str * n: n copies, none when n <= 0
Repeat(sym, n) == [i \in 1..(IF n > 0 THEN n ELSE 0) |-> sym]

\* get_similarity_display: stars = int(score * 10);
\* "*" * stars + "o" * (10 - stars).  int(nan) raises ValueError.
get_similarity_display(score) ==
    IF IsNaN(score)
    THEN [raised |-> "ValueError", bar |-> <<>>]
    ELSE LET stars == Trunc(score * 10, 100)
         IN  [raised |-> "none",
              bar |-> Repeat("filled", stars) \o Repeat("empty", 10 - stars)]

(***************************************************************************)
(* Configuration tables                                                    *)
(***************************************************************************)
\* the keys of LANGUAGES, in the order of the dict
LANGUAGES == <<"English", "Chinese", "Spanish", "French", "Japanese">>

\* the languages the select boxes offer
Langs == {LANGUAGES[i] : i \in 1..NumLangs}

\* the keys of probes (and of SEMANTIC_CONTEXT), in insertion order
Categories == <<"animal", "human", "object">>

CategorySet == {Categories[i] : i \in 1..Len(Categories)}

\* the local dict probes of get_semantic_category
probes ==
    [animal |-> "animal pet creature",
     human  |-> "human person people",
     object |-> "thing object item"]

\* the dict SEMANTIC_CONTEXT as written in the source
SEMANTIC_CONTEXT ==
    [animal |->
        [English  |-> <<"animal", "pet", "creature", "mammal", "wildlife", "companion">>,
         Chinese  |-> <<"dongwu", "chongwu", "shengwu", "buru dongwu", "yesheng dongwu", "huoban">>,
         Spanish  |-> <<"animal", "mascota", "criatura", "mamifero", "fauna", "companero">>,
         French   |-> <<"animal", "animal de compagnie", "creature_fr", "mammifere", "faune", "compagnon">>,
         Japanese |-> <<"doubutsu", "petto", "ikimono", "honyuurui", "yasei doubutsu", "nakama">>],
     human |->
        [English  |-> <<"person", "human", "individual", "people", "adult", "being">>,
         Chinese  |-> <<"ren", "renlei", "geren", "renmen", "chengren", "shengming">>,
         Spanish  |-> <<"persona", "humano", "individuo", "gente", "adulto", "ser">>,
         French   |-> <<"personne", "humain", "individu", "gens", "adulte", "etre">>,
         Japanese |-> <<"ren", "ningen", "kojin", "hitobito", "otona", "sonzai">>],
     object |->
        [English  |-> <<"thing", "object", "item", "material", "substance", "matter">>,
         Chinese  |-> <<"dongxi", "wuti", "wupin", "cailiao", "wuzhi", "shiwu">>,
         Spanish  |-> <<"cosa", "objeto", "elemento", "material", "sustancia", "materia">>,
         French   |-> <<"chose", "objet", "article", "materiel", "substance", "matiere">>,
         Japanese |-> <<"mono", "wuti", "shinamono", "cailiao", "busshitsu", "shiwu">>]]

\* SEMANTIC_CONTEXT cut to the offered languages and the first VocabLen terms
InitialContext ==
    [c \in CategorySet |->
        [l \in Langs |-> SubSeq(SEMANTIC_CONTEXT[c][l], 1, VocabLen)]]

\* texts a user may type into the text areas: empty, blank, and two words
\* of EXAMPLE_PAIRS['Gender']
Texts == {"", " ", "man", "nanren"}

Words ==
    {InitialContext[c][l][i] : c \in CategorySet, l \in Langs, i \in 1..VocabLen}

Probes == {probes[c] : c \in CategorySet}

Strings == Texts \cup Probes \cup Words

\* where a vocabulary term stands: <<category index, language index, position>>
\* of its list with the smallest language index (a term shared by several
\* languages stands in the same category and position in each)
Places(w) ==
    {p \in (1..Len(Categories)) \X (1..NumLangs) \X (1..VocabLen) :
        InitialContext[Categories[p[1]]][LANGUAGES[p[2]]][p[3]] = w}

PlaceOf(w) == CHOOSE p \in Places(w) : \A q \in Places(w) : p[2] <= q[2]

\* the index in VECS, k places on, wrapping within the first NumVecs
Rot(i, k) == ((i - 1 + k) % NumVecs) + 1

\* An embedding function over Strings (none of them raises here; a failing
\* encode call is an input of the Analyze handler).  tv gives the VECS index
\* of each text, pv of each category's probe, wv of each list position; the
\* term at position i of category c and language l gets the vector
\* Rot(wv[i], c + l - 2), so that lists differ by category and language.
ModelOf(tv, pv, wv) ==
    [s \in Strings |->
        IF s \in Texts THEN VECS[tv[s]]
        ELSE IF s \in Probes
             THEN VECS[pv[CHOOSE c \in CategorySet : probes[c] = s]]
             ELSE LET p == PlaceOf(s)
                  IN  VECS[Rot(wv[p[3]], p[1] + p[2] - 2)]]

\* the embedding functions the specifications draw from
Idx == 1..NumVecs

\* every text gets the vector of index t
SameForTexts(t) == [s \in Texts |-> t]

\* the probes get consecutive vectors starting k places on
RotProbes(k) ==
    [c \in CategorySet |->
        Rot(CHOOSE i \in 1..Len(Categories) : Categories[i] = c, k)]

\* the texts get consecutive vectors starting k places on
RotTexts(k) ==
    [s \in Texts |->
        Rot(CASE s = "man" -> 1 [] s = "nanren" -> 2 [] s = "" -> 3 [] OTHER -> 4, k)]

\* the list positions get consecutive vectors
RotWords == [i \in 1..VocabLen |-> Rot(i, 0)]

(***************************************************************************)
(* max and sorted, as CPython computes them                                *)
(***************************************************************************)
\* lambda x: x[1] on a (name, score) pair
key(x) == x[2]

RECURSIVE MaxLoop(_, _, _)
MaxLoop(items, i, best) ==
    IF i > Len(items) THEN best
    ELSE MaxLoop(items, i + 1,
                 IF Gt(key(items[i]), key(best)) THEN items[i] ELSE best)

\* max(items, key=...): the first item is kept until a later one compares
\* strictly greater
PyMax(items) == MaxLoop(items, 2, items[1])

Reverse(s) == [i \in 1..Len(s) |-> s[Len(s) + 1 - i]]

\* listsort's count_run: the length of the run that starts the list, given
\* that its first n items form one; descending runs are strict
RECURSIVE RunLen(_, _, _)
RunLen(s, n, descending) ==
    IF n = Len(s) THEN n
    ELSE IF Lt(key(s[n + 1]), key(s[n])) = descending
         THEN RunLen(s, n + 1, descending)
         ELSE n

\* listsort's binarysort, inner loop: where pivot goes in the sorted s[l..r-1]
RECURSIVE BinPos(_, _, _, _)
BinPos(s, pivot, l, r) ==
    IF l >= r THEN l
    ELSE LET p == l + ((r - l) \div 2)
         IN  IF Lt(key(pivot), key(s[p]))
             THEN BinPos(s, pivot, l, p)
             ELSE BinPos(s, pivot, p + 1, r)

\* listsort's binarysort, outer loop: s[1..start-1] is sorted, insert the rest
RECURSIVE BinarySort(_, _)
BinarySort(s, start) ==
    IF start > Len(s) THEN s
    ELSE LET pos == BinPos(s, s[start], 1, start)
         IN  BinarySort(SubSeq(s, 1, pos - 1) \o <<s[start]>>
                            \o SubSeq(s, pos, start - 1)
                            \o SubSeq(s, start + 1, Len(s)),
                        start + 1)

\* list.sort for fewer than 64 items (one run: count_run, then binarysort)
ListSort(s) ==
    IF Len(s) < 2 THEN s
    ELSE LET descending == Lt(key(s[2]), key(s[1]))
             n == RunLen(s, 2, descending)
             run == IF descending
                    THEN Reverse(SubSeq(s, 1, n)) \o SubSeq(s, n + 1, Len(s))
                    ELSE s
         IN  BinarySort(run, n + 1)

\* sorted(s, key=lambda x: x[1], reverse=True): reverse, sort ascending
\* (stable), reverse again
Sorted(s) == Reverse(ListSort(Reverse(s)))

(***************************************************************************)
(* The classifier and the ranker                                           *)
(***************************************************************************)
\* lines 88-96 of get_semantic_category: the dict similarities, as its
\* items() in insertion order
CategoryScores(text, m) ==
    [i \in 1..Len(Categories) |->
        <<Categories[i],
          compute_similarity(m[text], m[probes[Categories[i]]])>>]

\* get_semantic_category(text, model)
get_semantic_category(text, m) == PyMax(CategoryScores(text, m))[1]

\* lines 115-117 of get_semantic_field, one pass of the loop: the pair
\* appended for a word
ScoreTerm(text, m, word) == <<word, compute_similarity(m[text], m[word])>>

\* a loop that keeps only the terms of positive similarity
FieldScoresPositive(text, m, context_words) ==
    SelectSeq([i \in 1..Len(context_words) |-> ScoreTerm(text, m, context_words[i])],
              LAMBDA x : Gt(key(x), 0))

\* lines 110-117 of get_semantic_field: the list similarities after the loop
FieldScores(text, m, context_words) ==
    [i \in 1..Len(context_words) |-> ScoreTerm(text, m, context_words[i])]

\* a return that forgets the sort
Unsorted(s) == s

\* line 119 of get_semantic_field, applied to the list as the loop left it
SortField(s) == Sorted(s)

\* get_semantic_field(text, lang, model), reading SEMANTIC_CONTEXT from ctx
get_semantic_field(text, lang, m, ctx) ==
    SortField(FieldScores(text, m, ctx[get_semantic_category(text, m)][lang]))

(***************************************************************************)
(* compute_similarity on its own                                           *)
(***************************************************************************)
InitSimilarity ==
    /\ model = NoValue
    /\ context = InitialContext
    /\ pc = "ready"
    /\ args \in [v1 : AllVec, v2 : AllVec]
    /\ ret = NoValue
    /\ similarities = <<>>
    /\ ui = NoValue
    /\ ref = NoValue

\* a call of compute_similarity(v1, v2): it has no raise statement and numpy
\* division does not raise, so the call always returns a value
CallSimilarity ==
    /\ pc = "ready"
    /\ pc' = "returned"
    /\ ret' = [raised |-> "none",
               value |-> compute_similarity(args.v1, args.v2)]
    /\ UNCHANGED <<model, context, args, similarities, ui, ref>>

NextSimilarity == CallSimilarity

SpecSimilarity == InitSimilarity /\ [][NextSimilarity]_vars

\* C7: when either vector passed to compute_similarity has zero magnitude the
\* call fails with ZeroMagnitude and returns no value.
C7_ZeroMagnitudeFails ==
    (pc = "returned" /\ (norm(args.v1) = 0 \/ norm(args.v2) = 0))
        => ret.raised = "ZeroMagnitude"

(***************************************************************************)
(* get_similarity_display on its own                                       *)
(***************************************************************************)
\* the scores of [-1, 1] in hundredths
Scores == -100..100

InitDisplay ==
    /\ model = NoValue
    /\ context = InitialContext
    /\ pc = "ready"
    /\ args \in [score : Scores \cup {NaN}]
    /\ ret = NoValue
    /\ similarities = <<>>
    /\ ui = NoValue
    /\ ref = NoValue

CallDisplay ==
    /\ pc = "ready"
    /\ pc' = "returned"
    /\ ret' = get_similarity_display(args.score)
    /\ UNCHANGED <<model, context, args, similarities, ui, ref>>

NextDisplay == CallDisplay

SpecDisplay == InitDisplay /\ [][NextDisplay]_vars

\* C10: for every score in [-1, 1], negative ones included,
\* get_similarity_display returns a bar of exactly 10 symbols: int(score*10)
\* filled stars followed by empty stars for the remainder.
C10_BarHasTenSymbols ==
    (pc = "returned" /\ args.score \in Scores)
        => /\ ret.raised = "none"
           /\ Len(ret.bar) = 10
           /\ \A i \in 1..10 :
                ret.bar[i] = IF i <= Trunc(args.score * 10, 100)
                             THEN "filled" ELSE "empty"

(***************************************************************************)
(* get_semantic_category on its own                                        *)
(***************************************************************************)
InitClassify ==
    /\ \E t \in Idx, pv \in [CategorySet -> Idx] :
            model = ModelOf(SameForTexts(t), pv, RotWords)
    /\ context = InitialContext
    /\ pc = "ready"
    /\ args \in [text : Texts]
    /\ ret = NoValue
    /\ similarities = <<>>
    /\ ui = NoValue
    /\ ref = NoValue

\* a call of get_semantic_category(text, model); similarities keeps the
\* items of the local dict of that name
CallClassify ==
    /\ pc = "ready"
    /\ pc' = "returned"
    /\ similarities' = CategoryScores(args.text, model)
    /\ ret' = [raised |-> "none",
               category |-> get_semantic_category(args.text, model)]
    /\ UNCHANGED <<model, context, args, ui, ref>>

NextClassify == CallClassify

SpecClassify == InitClassify /\ [][NextClassify]_vars

\* the score the dict similarities holds for a category
ScoreOf(c) ==
    key(similarities[CHOOSE i \in 1..Len(similarities) : similarities[i][1] = c])

CatIndex(c) == CHOOSE i \in 1..Len(Categories) : Categories[i] = c

\* C1: for every non-empty text and every embedding function
\* get_semantic_category returns a category whose similarity to the text is
\* the maximum over all categories, and among categories with exactly that
\* score the first in the order animal, human, object.
C1_ClassifyReturnsFirstMax ==
    (pc = "returned" /\ args.text \notin {"", " "})
        => /\ ret.raised = "none"
           /\ \A c \in CategorySet :
                /\ ~IsNaN(ScoreOf(ret.category))
                /\ ~IsNaN(ScoreOf(c))
                /\ ScoreOf(ret.category) >= ScoreOf(c)
                /\ (ScoreOf(c) = ScoreOf(ret.category)
                        => CatIndex(ret.category) <= CatIndex(c))

\* The same statement for embeddings of non-zero magnitude only: what is
\* left of C1 once no score is NaN.
ClassifyFirstMaxWhenNoNaN ==
    (pc = "returned" /\ \A i \in 1..Len(similarities) : ~IsNaN(key(similarities[i])))
        => \A c \in CategorySet :
                /\ ScoreOf(ret.category) >= ScoreOf(c)
                /\ (ScoreOf(c) = ScoreOf(ret.category)
                        => CatIndex(ret.category) <= CatIndex(c))

(***************************************************************************)
(* get_semantic_field on its own                                           *)
(***************************************************************************)
InitField ==
    /\ \E t \in {0, 2}, k \in Idx, wv \in [1..VocabLen -> Idx] :
            model = ModelOf(RotTexts(t), RotProbes(k), wv)
    /\ context = InitialContext
    /\ pc = "ready"
    /\ args \in [text : Texts, lang : Langs]
    /\ ret = NoValue
    /\ similarities = <<>>
    /\ ui = NoValue
    /\ ref = NoValue

\* a call of get_semantic_field(text, lang, model); ret.category keeps the
\* local category
CallField ==
    /\ pc = "ready"
    /\ pc' = "returned"
    /\ ret' = [raised |-> "none",
               category |-> get_semantic_category(args.text, model),
               field |-> get_semantic_field(args.text, args.lang, model, context)]
    /\ UNCHANGED <<model, context, args, similarities, ui, ref>>

NextField == CallField

SpecField == InitField /\ [][NextField]_vars

\* how often x occurs in the sequence s
Count(s, x) == Cardinality({i \in 1..Len(s) : s[i] = x})

Terms(f) == [i \in 1..Len(f) |-> f[i][1]]

Range(s) == {s[i] : i \in 1..Len(s)}

\* where a term stands in a vocabulary list (its terms are distinct)
IndexIn(vocabulary, w) ==
    CHOOSE i \in 1..Len(vocabulary) : vocabulary[i] = w

\* C2: the field get_semantic_field returns has exactly as many entries as
\* the vocabulary list of the resolved (category, language), and its terms
\* are the terms of that list with their multiplicities.
C2_FieldKeepsVocabulary ==
    pc = "returned"
        => LET vocabulary == context[ret.category][args.lang]
               terms == Terms(ret.field)
           IN  /\ Len(terms) = Len(vocabulary)
               /\ Len(terms) = VocabLen
               /\ \A w \in Range(terms) \cup Range(vocabulary) :
                    Count(terms, w) = Count(vocabulary, w)

\* a call whose sort moved terms, two of them with exactly equal scores
C2_Witness ==
    /\ pc = "returned"
    /\ Terms(ret.field) # context[ret.category][args.lang]
    /\ \E i, j \in 1..Len(ret.field) :
            /\ i # j
            /\ ~IsNaN(key(ret.field[i]))
            /\ key(ret.field[i]) = key(ret.field[j])

\* C3: the field is sorted by non-increasing score (no entry is followed by
\* one of strictly greater score), and terms of exactly equal score keep the
\* order they have in the vocabulary list.
C3_FieldSortedStable ==
    (pc = "returned" /\ args.text \notin {"", " "})
        => LET vocabulary == context[ret.category][args.lang]
               f == ret.field
           IN  \A i, j \in 1..Len(f) :
                 i < j =>
                    /\ ~Lt(key(f[i]), key(f[j]))
                    /\ (key(f[i]) = key(f[j])
                          => IndexIn(vocabulary, f[i][1]) < IndexIn(vocabulary, f[j][1]))

\* The same statement for calls in which no score is NaN: what is left of
\* C3 then.
FieldSortedStableWhenNoNaN ==
    (pc = "returned" /\ \A i \in 1..Len(ret.field) : ~IsNaN(key(ret.field[i])))
        => LET vocabulary == context[ret.category][args.lang]
               f == ret.field
           IN  \A i, j \in 1..Len(f) :
                 i < j =>
                    /\ key(f[i]) >= key(f[j])
                    /\ (key(f[i]) = key(f[j])
                          => IndexIn(vocabulary, f[i][1]) < IndexIn(vocabulary, f[j][1]))

(***************************************************************************)
(* The vocabulary loop of get_semantic_field run as a fan-out: the passes  *)
(* of the loop (lines 115-117) complete in any order, each appending its   *)
(* pair when it completes; line 119 sorts once all have completed.         *)
(***************************************************************************)
InitFanOut ==
    /\ \E wv \in [1..VocabLen -> Idx] :
            model = ModelOf(RotTexts(0), RotProbes(0), wv)
    /\ context = InitialContext
    /\ pc = "ready"
    /\ args \in [text : {"man", "nanren"}, lang : Langs]
    /\ ret = NoValue
    /\ similarities = <<>>
    /\ ui = NoValue
    /\ ref = NoValue

\* lines 104-111: resolve the category, start with an empty list
FanOutStart ==
    /\ pc = "ready"
    /\ pc' = "fanout"
    /\ similarities' = <<>>
    /\ ret' = [raised |-> "none",
               category |-> get_semantic_category(args.text, model)]
    /\ UNCHANGED <<model, context, args, ui, ref>>

\* the positions of the vocabulary list whose pass has not completed
Pending ==
    {i \in 1..Len(context[ret.category][args.lang]) :
        context[ret.category][args.lang][i] \notin {similarities[j][1] : j \in 1..Len(similarities)}}

\* lines 115-117 for the word at position i: its pass completes
TermDone(i) ==
    /\ pc = "fanout"
    /\ i \in Pending
    /\ similarities' =
            Append(similarities,
                   ScoreTerm(args.text, model, context[ret.category][args.lang][i]))
    /\ UNCHANGED <<model, context, pc, args, ret, ui, ref>>

\* line 119, once every pass has completed
FanIn ==
    /\ pc = "fanout"
    /\ Pending = {}
    /\ pc' = "returned"
    /\ ret' = [raised |-> "none",
               category |-> ret.category,
               field |-> SortField(similarities)]
    /\ UNCHANGED <<model, context, args, similarities, ui, ref>>

NextFanOut ==
    \/ FanOutStart
    \/ \E i \in 1..VocabLen : TermDone(i)
    \/ FanIn

SpecFanOut == InitFanOut /\ [][NextFanOut]_vars

\* what the sequential loop of the source returns for the same call
Sequential == get_semantic_field(args.text, args.lang, model, context)

AppendedAt(w) ==
    CHOOSE j \in 1..Len(similarities) : similarities[j][1] = w

NoNaNIn(f) == \A i \in 1..Len(f) : ~IsNaN(key(f[i]))

Scores_(f) == [i \in 1..Len(f) |-> key(f[i])]

\* the vocabulary list in the order in which the passes completed
CompletionOrder == [j \in 1..Len(similarities) |-> similarities[j][1]]

\* every score is at least the next one (false of a list holding a NaN)
NonIncreasing(f) ==
    \A i \in 1..(Len(f) - 1) : ~IsNaN(key(f[i])) /\ ~IsNaN(key(f[i + 1]))
                                /\ key(f[i]) >= key(f[i + 1])

EmptyPage == [shown |-> <<>>, error |-> "none", raised |-> "none"]

\* the steps of the try block that call model.encode
EncodeSteps == {"embed1", "embed2", "field1", "field2"}

\* field[:5]
Top5(field) == SubSeq(field, 1, IF Len(field) < 5 THEN Len(field) ELSE 5)

\* the first entry of a list of pairs whose score is NaN, or 0
FirstNaN(f) ==
    IF \E i \in 1..Len(f) : IsNaN(key(f[i]))
    THEN CHOOSE i \in 1..Len(f) :
            IsNaN(key(f[i])) /\ \A j \in 1..(i - 1) : ~IsNaN(key(f[j]))
    ELSE 0

\* lines 218-219 (222-223): one line per entry of field[:5]; the line of a
\* NaN score raises in get_similarity_display and ends the loop
FieldLines(lang, field) ==
    LET f == Top5(field)
        stop == FirstNaN(f)
        n == IF stop = 0 THEN Len(f) ELSE stop - 1
    IN  [raised |-> IF stop = 0 THEN "none" ELSE "ValueError",
         shown |-> [i \in 1..n |->
                      <<"field line", lang, f[i][1], key(f[i]),
                        get_similarity_display(key(f[i])).bar>>]]

\* lines 204-211
MatchLabel(similarity) ==
    IF Gt(similarity, 80) THEN "Strong match"
    ELSE IF Gt(similarity, 60) THEN "Good match"
    ELSE IF Gt(similarity, 40) THEN "Partial match"
    ELSE "Weak match"

\* lines 195-249: the results section, written top to bottom until a call
\* raises.  st.metric formats NaN as "nan"; get_similarity_display(NaN)
\* raises; plot_semantic_comparison builds a DataFrame, which raises when
\* the two fields differ in length.
Display(similarity, field1, field2, lang1, lang2) ==
    LET head == << <<"header">>, <<"metric", similarity>> >>
        level == << <<"match level", get_similarity_display(similarity).bar>>,
                    <<"label", MatchLabel(similarity)>>,
                    <<"subheader">> >>
        lines1 == FieldLines(lang1, field1)
        lines2 == FieldLines(lang2, field2)
        tail == << <<"plot", Len(field1)>>,
                   <<"interpretation", similarity, MatchLabel(similarity)>> >>
    IN  IF IsNaN(similarity)
        THEN [raised |-> "ValueError", shown |-> head]
        ELSE IF lines1.raised # "none"
        THEN [raised |-> "ValueError", shown |-> head \o level \o lines1.shown]
        ELSE IF lines2.raised # "none"
        THEN [raised |-> "ValueError",
              shown |-> head \o level \o lines1.shown \o lines2.shown]
        ELSE IF Len(field1) # Len(field2)
        THEN [raised |-> "ValueError",
              shown |-> head \o level \o lines1.shown \o lines2.shown]
        ELSE [raised |-> "none",
              shown |-> head \o level \o lines1.shown \o lines2.shown \o tail]

\* a loop that appends the text to the list it iterates (the list is the
\* one inside SEMANTIC_CONTEXT, not a copy)
context_words_appended(context_words, text) == Append(context_words, text)

\* lines 107-119: context_words aliases SEMANTIC_CONTEXT[category][lang]; it
\* is only iterated, and sorted() builds a new list
context_words_after(context_words, text) == context_words

\* SEMANTIC_CONTEXT after a call of get_semantic_field(text, lang, model)
ContextAfterField(ctx, text, lang, m) ==
    LET category == get_semantic_category(text, m)
    IN  [ctx EXCEPT ![category][lang] =
            context_words_after(ctx[category][lang], text)]

\* a comparison whose score is taken between the best terms of the two fields
compare_by_fields(text1, lang1, text2, lang2, m, ctx) ==
    LET field1 == get_semantic_field(text1, lang1, m, ctx)
        field2 == get_semantic_field(text2, lang2, m,
                                     ContextAfterField(ctx, text1, lang1, m))
    IN  [similarity |-> compute_similarity(m[field1[1][1]], m[field2[1][1]]),
         field1 |-> field1,
         field2 |-> field2]

\* lines 186-192: the score and the two fields
compare(text1, lang1, text2, lang2, m, ctx) ==
    [similarity |-> compute_similarity(m[text1], m[text2]),
     field1 |-> get_semantic_field(text1, lang1, m, ctx),
     field2 |-> get_semantic_field(text2, lang2, m,
                                   ContextAfterField(ctx, text1, lang1, m))]

\* what the text areas are given in this model
Text1Inputs == {"", " ", "man"}

Text2Inputs == {"man", "nanren"}

\* lines 163-178 on the first run: empty text areas, first language selected
InitMain ==
    /\ \E k \in {0, 2} : model = ModelOf(RotTexts(k), RotProbes(0), RotWords)
    /\ context = InitialContext
    /\ pc = "page"
    /\ args = [text1 |-> "", lang1 |-> LANGUAGES[1],
               text2 |-> "", lang2 |-> LANGUAGES[1]]
    /\ ret = NoValue
    /\ similarities = <<>>
    /\ ui = EmptyPage
    /\ ref = NoValue

\* A widget changed: the script reruns with the button not pressed, so the
\* results section is not written.
Rerun(newArgs) ==
    /\ newArgs # args
    /\ args' = newArgs
    /\ pc' = "page"
    /\ ret' = NoValue
    /\ ui' = EmptyPage
    /\ UNCHANGED <<model, context, similarities, ref>>

EditText1(t) == Rerun([args EXCEPT !.text1 = t])

EditText2(t) == Rerun([args EXCEPT !.text2 = t])

SelectLang1(l) == Rerun([args EXCEPT !.lang1 = l])

SelectLang2(l) == Rerun([args EXCEPT !.lang2 = l])

\* lines 181-252: the Analyze button is pressed.  failing is the step whose
\* model.encode call raises in this run ("none": no call raises).
\* ref is a history variable: one completed request, picked at will, with
\* what it returned and showed; ref.between tells that a request with other
\* arguments ran after it.
Analyze(failing) ==
    LET run == args.text1 # "" /\ args.text2 # ""
        done1 == run /\ failing \in {"none", "field2"}
        done2 == run /\ failing = "none"
        after1 == IF done1
                  THEN ContextAfterField(context, args.text1, args.lang1, model)
                  ELSE context
        after2 == IF done2
                  THEN ContextAfterField(after1, args.text2, args.lang2, model)
                  ELSE after1
        result == compare(args.text1, args.lang1, args.text2, args.lang2,
                          model, context)
        page == Display(result.similarity, result.field1, result.field2,
                        args.lang1, args.lang2)
    IN  /\ run \/ failing = "none"
        /\ pc' = "analyzed"
        /\ context' = after2
        /\ ret' = IF done2 THEN result ELSE NoValue
        /\ ui' = IF ~run THEN EmptyPage
                 ELSE IF failing # "none"
                 THEN [shown |-> <<>>, error |-> "Error in analysis",
                       raised |-> failing]
                 ELSE [shown |-> page.shown,
                       error |-> IF page.raised = "none"
                                 THEN "none" ELSE "Error in analysis",
                       raised |-> page.raised]
        /\ \/ /\ ref = NoValue
              /\ ref' = ref
           \/ /\ ref = NoValue
              /\ done2
              /\ ref' = [args |-> args, ret |-> ret', ui |-> ui', between |-> FALSE]
           \/ /\ ref # NoValue
              /\ ref' = [ref EXCEPT !.between = ref.between \/ (run /\ args # ref.args)]
        /\ UNCHANGED <<model, args, similarities>>

NextMain ==
    \/ \E t \in Text1Inputs : EditText1(t)
    \/ \E t \in Text2Inputs : EditText2(t)
    \/ \E l \in Langs : SelectLang1(l)
    \/ \E l \in Langs : SelectLang2(l)
    \/ \E failing \in EncodeSteps \cup {"none"} : Analyze(failing)

SpecMain == InitMain /\ [][NextMain]_vars

HasRef == ref # NoValue

HasResult == ret # NoValue

\* C4: the overall score depends only on the two texts: a request with the
\* same two texts as an earlier one, whatever the languages selected and the
\* categories and fields that follow from them, has the same score.
C4_ScoreIgnoresLanguage ==
    (HasRef /\ HasResult
        /\ args.text1 = ref.args.text1 /\ args.text2 = ref.args.text2)
        => ret.similarity = ref.ret.similarity

\* two requests for the same texts under different languages, whose fields
\* differ
C4_Witness ==
    /\ HasRef
    /\ HasResult
    /\ args.text1 = ref.args.text1
    /\ args.text2 = ref.args.text2
    /\ args.lang1 # ref.args.lang1
    /\ args.lang2 # ref.args.lang2
    /\ ~IsNaN(ret.similarity)
    /\ Scores_(ret.field1) # Scores_(ref.ret.field1)
    /\ Scores_(ret.field2) # Scores_(ref.ret.field2)

\* C5: a request with the arguments of an earlier request returns the same
\* score and fields and shows the same page, whatever requests ran in
\* between, and no request changes SEMANTIC_CONTEXT.
C5_RepeatedCompareIdentical ==
    /\ context = InitialContext
    /\ (HasRef /\ HasResult /\ args = ref.args)
            => (ret = ref.ret /\ ui = ref.ui)

\* an earlier request, a request with other arguments after it, and then
\* the earlier request again
C5_Witness ==
    /\ HasRef
    /\ HasResult
    /\ ref.between
    /\ args = ref.args
    /\ pc = "analyzed"

IsBlank(text) == text \in {"", " "}

\* C6: a request with an empty or whitespace-only text fails with EmptyInput;
\* nothing is computed for it and nothing is shown.
C6_BlankInputFails ==
    (pc = "analyzed" /\ (IsBlank(args.text1) \/ IsBlank(args.text2)))
        => /\ ui.raised = "EmptyInput"
           /\ ~HasResult
           /\ ui.shown = <<>>

\* The whitespace-only half of C6 on its own: a
\* whitespace-only text yields no result.
WhitespaceYieldsNoResult ==
    (pc = "analyzed" /\ (args.text1 = " " \/ args.text2 = " ")) => ~HasResult

\* C8: a request is all-or-nothing: when it ends with an error nothing of the
\* result is on the page, and what is on the page is a complete result of a
\* request that met no error.
C8_AllOrNothing ==
    pc = "analyzed"
        => /\ ui.error # "none" => ui.shown = <<>>
           /\ ui.shown # <<>> => (HasResult /\ ui.error = "none")

\* The part of C8 about a failing model.encode call: the
\* request stops there, shows one error and nothing else.
EncodeFailureShowsNothing ==
    (pc = "analyzed" /\ ui.raised \in EncodeSteps)
        => (ui.shown = <<>> /\ ~HasResult /\ ui.error = "Error in analysis")

====
